---- MODULE Spec2Model ----
(***************************************************************************)
(* Model of py4vasp's PartialCharge (calculation/_partial_charge.py): the *)
(* simulated STM pipeline to_stm / to_array / plot_STM; of the step        *)
(* selection of DataTrajectory (data/_trajectory.py); of the from_file     *)
(* context manager (data/_util.py); and of the axes and arrows of Viewer3d *)
(* (data/viewer3d.py).                                                     *)
(*                                                                         *)
(* Numbers.  Python floats are modelled by exact rationals.  A scalar is a *)
(* pair <<n, d>> with d > 0 in lowest terms; a density array is a record   *)
(* [num |-> function over the grid points, den |-> common denominator] in  *)
(* lowest terms.  Lengths (lattice entries, atomic z, tip height) and the  *)
(* five settings are integers.                                             *)
(***************************************************************************)
EXTENDS Integers, Sequences, FiniteSets, TLC

VARIABLES
    lattice_vectors,   \* self._structure._lattice_vectors(): 3x3, rows 0..2
    positions_z,       \* self._structure.cartesian_positions()[:, 2]
    topology,          \* str(self._structure._topology())
    grid,              \* self._raw_data.grid: <<nx, ny, nz>>
    bands,             \* self._raw_data.bands: sequence of band labels
    kpoints,           \* self._raw_data.kpoints: sequence of k-point labels
    partial_charge,    \* self._raw_data.partial_charge[:].T, keyed <<x,y,z,s,b,k>>
    self,              \* attributes set on the PartialCharge object
    call,              \* the last call made on the object and its arguments
    ret,               \* what that call returned or raised
    warned,            \* the warnings that call emitted
    locals,            \* local variables of that call at its end
    invocations,       \* to_stm invocations running step by step, one per thread
    files,             \* the raw.File objects created so far, by handle
    Viewer3d_arrows,   \* Viewer3d._arrows, the list held by the class
    viewers            \* the Viewer3d instances created so far, with their widgets

raw == <<lattice_vectors, positions_z, topology, grid, bands, kpoints, partial_charge>>
vars == <<lattice_vectors, positions_z, topology, grid, bands, kpoints,
          partial_charge, self, call, ret, warned, locals, invocations,
          files, Viewer3d_arrows, viewers>>

----------------------------------------------------------------------------
(* Bounds of the model. *)
NX == 2          \* grid points along x
NY == 1          \* grid points along y
NZ == 3          \* grid points along z
MaxCharge == 2   \* largest stored density value of a column profile
MaxTilt == 1     \* largest absolute value of an off-diagonal lattice entry
MaxTip == 3      \* largest tip height requested
MaxIndex == 3    \* largest band or k-point label requested

----------------------------------------------------------------------------
(* Exact arithmetic. *)

\* F applied to the value of v, v being evaluated once
Let(v, F(_)) == CHOOSE r \in {F(x) : x \in {v}} : TRUE

Abs(n) == IF n < 0 THEN -n ELSE n

RECURSIVE GCD(_, _)
GCD(a, b) == IF b = 0 THEN Abs(a) ELSE GCD(b, a % Abs(b))

\* the fraction n / d in lowest terms with a positive denominator
Rat(n, d) ==
    Let(<<n, d>>, LAMBDA nd :
        Let(GCD(nd[1], nd[2]), LAMBDA g :
            IF nd[2] < 0 THEN <<(-nd[1]) \div g, (-nd[2]) \div g>>
            ELSE <<nd[1] \div g, nd[2] \div g>>))

\* sums and comparisons over the common denominator
RAdd(a, b) ==
    Let(GCD(a[2], b[2]), LAMBDA g :
        Rat(a[1] * (b[2] \div g) + b[1] * (a[2] \div g), (a[2] \div g) * b[2]))
RSub(a, b) == RAdd(a, <<-b[1], b[2]>>)
RMul(a, b) ==
    Let(<<GCD(a[1], b[2]), GCD(b[1], a[2])>>, LAMBDA g :
        Rat((a[1] \div g[1]) * (b[1] \div g[2]), (a[2] \div g[2]) * (b[2] \div g[1])))
RLeq(a, b) ==
    Let(GCD(a[2], b[2]), LAMBDA g :
        a[1] * (b[2] \div g) <= b[1] * (a[2] \div g))
RLess(a, b) == ~RLeq(b, a)

RECURSIVE SetGCD(_)
SetGCD(S) ==
    IF S = {} THEN 0
    ELSE LET x == CHOOSE y \in S : TRUE IN GCD(x, SetGCD(S \ {x}))

\* the same function, tabulated over its domain before it is used
Tab(f) == f @@ <<>>

\* the array num/den in lowest terms (den > 0)
Arr(num, den) ==
    Let(Tab(num), LAMBDA t :
        Let(GCD(SetGCD({t[p] : p \in DOMAIN t}), den), LAMBDA g :
            [num |-> Tab([p \in DOMAIN t |-> t[p] \div g]), den |-> den \div g]))

At(a, p) == Rat(a.num[p], a.den)

RECURSIVE SumOver(_, _)
SumOver(S, f) ==
    IF S = {} THEN 0
    ELSE LET x == CHOOSE y \in S : TRUE IN f[x] + SumOver(S \ {x}, f)

RECURSIVE Prod(_, _)
Prod(S, f) ==
    IF S = {} THEN 1
    ELSE LET x == CHOOSE y \in S : TRUE IN f[x] * Prod(S \ {x}, f)

\* int(n / d) of Python: truncation toward zero (d > 0)
IntTrunc(n, d) == IF n >= 0 THEN n \div d ELSE -((-n) \div d)

\* round(n / d) of Python: nearest integer, ties to the even one (d > 0)
RoundHalfEven(n, d) ==
    LET fl == n \div d
        r2 == 2 * (n - fl * d)
    IN  IF r2 < d THEN fl
        ELSE IF r2 > d THEN fl + 1
        ELSE IF fl % 2 = 0 THEN fl ELSE fl + 1

----------------------------------------------------------------------------
(* Python values. *)
None == [type |-> "None"]
ValueError(m) == [type |-> "ValueError", message |-> m]
IndexError == [type |-> "IndexError", message |-> "index out of bounds for axis 2"]
UnboundLocalError == [type |-> "UnboundLocalError", message |-> "local variable k"]
UserWarning(what, index) == [category |-> "UserWarning", what |-> what, index |-> index]

\* hasattr / setattr on the object: self maps the names of the attributes
\* that have been assigned to their values
HasAttr(s, name) == name \in DOMAIN s
SetAttr(s, name, v) ==
    Let(v, LAMBDA x : Tab([a \in DOMAIN s \cup {name} |-> IF a = name THEN x ELSE s[a]]))

\* str.lower() on the mode strings of this model
Lower(m) ==
    CASE m = "CH" -> "ch"
      [] m = "CC" -> "cc"
      [] m = "Constant_Height" -> "constant_height"
      [] m = "Constant Current" -> "constant current"
      [] OTHER -> m

\* a table that also knows the short names height and current
stm_modes_with_short_names ==
    [constant_height |-> {"constant_height", "ch", "constant height", "height"},
     constant_current |-> {"constant_current", "cc", "constant current", "current"}]

stm_modes ==
    [constant_height |-> {"constant_height", "ch", "constant height"},
     constant_current |-> {"constant_current", "cc", "constant current"}]

default_params ==
    [sigma_z |-> 4, sigma_xy |-> 4, truncate |-> 3,
     enhancement_factor |-> 1000, interpolation_factor |-> 10]

----------------------------------------------------------------------------
(* Raw data access. *)
Points(g) == (0 .. g[1] - 1) \X (0 .. g[2] - 1) \X (0 .. g[3] - 1)
Lateral(g) == (0 .. g[1] - 1) \X (0 .. g[2] - 1)

\* lattice_vectors()[r][c], 0-based as in the source
lv(r, c) == lattice_vectors[r + 1][c + 1]

\* self._raw_data.partial_charge.shape[2] == 2 (the spin dimension)
_spin_polarized == \E p \in DOMAIN partial_charge : p[4] = 1

Max(S) == CHOOSE x \in S : \A y \in S : y <= x
Min(S) == CHOOSE x \in S : \A y \in S : x <= y

_get_highest_z_coord == Max({positions_z[n] : n \in DOMAIN positions_z})
_get_lowest_z_coord == Min({positions_z[n] : n \in DOMAIN positions_z})

Det3(m) ==
      m[1][1] * (m[2][2] * m[3][3] - m[2][3] * m[3][2])
    - m[1][2] * (m[2][1] * m[3][3] - m[2][3] * m[3][1])
    + m[1][3] * (m[2][1] * m[3][2] - m[2][2] * m[3][1])

\* self._structure.volume(): the volume of the unit cell
volume == Abs(Det3(lattice_vectors))

----------------------------------------------------------------------------
(* Geometry and tip placement. *)

\* the check with the first lattice vector left out
_check_z_orth_skips_first_vector == lv(1, 2) # 0 \/ lv(2, 0) # 0 \/ lv(2, 1) # 0

\* TRUE when _check_z_orth raises
_check_z_orth == lv(0, 2) # 0 \/ lv(1, 2) # 0 \/ lv(2, 0) # 0 \/ lv(2, 1) # 0

_estimate_vacuum ==
    LET slab_thickness == _get_highest_z_coord - _get_lowest_z_coord
        z_vector == lv(2, 2)
    IN  z_vector - slab_thickness

\* the check that also rejects a tip at exactly half the vacuum
_check_tip_height_at_half(s) == 2 * s["tip_height"] >= _estimate_vacuum

\* TRUE when _check_tip_height raises: self.tip_height > vacuum / 2
_check_tip_height(s) == 2 * s["tip_height"] > _estimate_vacuum

\* int(tip_height / lattice_vectors()[2][2] * grid()[2])
_z_index_for_height(tip_height) == IntTrunc(tip_height * grid[3], lv(2, 2))

----------------------------------------------------------------------------
(* Selection of one band, k-point and spin channel. *)

\* np.where(labels == index)[0][0]: 0-based position of the first match
Where(labels, index) == Min({n \in DOMAIN labels : labels[n] = index}) - 1
Contains(labels, index) == \E n \in DOMAIN labels : labels[n] = index

_check_index(what, labels, index) ==
    IF Contains(labels, index)
    THEN [raised |-> None, value |-> Where(labels, index), warned |-> <<>>]
    ELSE IF Contains(labels, 0)
    THEN [raised |-> None, value |-> 0, warned |-> <<UserWarning(what, index)>>]
    ELSE [raised |-> ValueError(what), value |-> 0, warned |-> <<>>]

_check_band_index(band) == _check_index("band", bands, band)
_check_kpoint_index(kpoint) == _check_index("kpoint", kpoints, kpoint)

\* a slice taken at the first k-point position whatever kpoint is
Channel_at_first_kpoint(s, band, kpoint) ==
    Tab([p \in Points(grid) |-> partial_charge[<<p[1], p[2], p[3], s, band, 0>>]])

\* parchg[:, :, :, s, band, kpoint]
Channel(s, band, kpoint) ==
    Tab([p \in Points(grid) |-> partial_charge[<<p[1], p[2], p[3], s, band, kpoint>>]])

\* a selection that takes channel 1 for the down density
to_array_down_is_channel_1(band, kpoint, spin) ==
    Let(_check_band_index(band), LAMBDA b :
        IF b.raised # None THEN [raised |-> b.raised, warned |-> b.warned]
        ELSE
    Let(_check_kpoint_index(kpoint), LAMBDA k :
        IF k.raised # None THEN [raised |-> k.raised, warned |-> b.warned \o k.warned]
        ELSE
    Let(<<Channel(0, b.value, k.value), b.warned \o k.warned>>, LAMBDA c :
        IF _spin_polarized
        THEN Let(Channel(1, b.value, k.value), LAMBDA c1 :
             IF spin = "both"
             THEN [raised |-> None, warned |-> c[2], value |-> Arr(c[1], 1)]
             ELSE IF spin = "up"
             THEN [raised |-> None, warned |-> c[2],
                   value |-> Arr([p \in Points(grid) |-> c[1][p] - c1[p]], 1)]
             ELSE IF spin = "down"
             THEN [raised |-> None, warned |-> c[2], value |-> Arr(c1, 1)]
             ELSE [raised |-> ValueError("spin"), warned |-> c[2]])
        ELSE [raised |-> None, warned |-> c[2], value |-> Arr(c[1], 1)])))

to_array(band, kpoint, spin) ==
    Let(_check_band_index(band), LAMBDA b :
        IF b.raised # None THEN [raised |-> b.raised, warned |-> b.warned]
        ELSE
    Let(_check_kpoint_index(kpoint), LAMBDA k :
        IF k.raised # None THEN [raised |-> k.raised, warned |-> b.warned \o k.warned]
        ELSE
    Let(<<Channel(0, b.value, k.value), b.warned \o k.warned>>, LAMBDA c :
        IF _spin_polarized
        THEN Let(Channel(1, b.value, k.value), LAMBDA c1 :
             IF spin = "both"
             THEN [raised |-> None, warned |-> c[2], value |-> Arr(c[1], 1)]
             ELSE IF spin = "up"
             THEN [raised |-> None, warned |-> c[2],
                   value |-> Arr([p \in Points(grid) |-> c[1][p] + c1[p]], 2)]
             ELSE IF spin = "down"
             THEN [raised |-> None, warned |-> c[2],
                   value |-> Arr([p \in Points(grid) |-> c[1][p] - c1[p]], 2)]
             ELSE [raised |-> ValueError("spin"), warned |-> c[2]])
        ELSE [raised |-> None, warned |-> c[2], value |-> Arr(c[1], 1)])))

----------------------------------------------------------------------------
(* Unit conversion and smoothing. *)

\* charge_data / (np.prod(grid) * cell volume)
_correct_units(charge_data) ==
    Let(charge_data, LAMBDA c :
        Arr(c.num, c.den * (grid[1] * grid[2] * grid[3]) * volume))

\* scipy's kernel radius: int(truncate * sigma + 0.5)
Radius(sigma, truncate) == IntTrunc(2 * truncate * sigma + 1, 2)

\* scipy's kernel weight exp(-d^2 / (2 sigma^2)) as an integer multiple of a
\* unit that depends on sigma (tenths, quarters); the kernel is normalised
\* by its sum, so the unit cancels
GaussWeight(sigma, d) ==
    LET table == CASE sigma = 1 -> <<10, 6, 1>>
                   [] sigma = 2 -> <<4, 4, 2, 1, 1>>
                   [] sigma = 4 -> <<4, 4, 4, 3, 2, 2, 1, 1, 1>>
    IN  IF Abs(d) < Len(table) THEN table[Abs(d) + 1] ELSE 0

KernelSum(sigma, truncate) ==
    LET r == Radius(sigma, truncate)
    IN  SumOver(-r .. r, [d \in -r .. r |-> GaussWeight(sigma, d)])

\* gaussian_filter1d(..., mode="wrap") along one axis (1, 2 or 3) of an
\* array over the points of g: the normalised kernel applied periodically
Filter1d(a, g, axis, sigma, truncate) ==
    Let(<<a, Radius(sigma, truncate)>>, LAMBDA ar :
        Arr([p \in DOMAIN ar[1].num |->
                SumOver(-ar[2] .. ar[2],
                        [d \in -ar[2] .. ar[2] |->
                            GaussWeight(sigma, d)
                              * ar[1].num[[p EXCEPT ![axis] = (p[axis] + d) % g[axis]]]])],
            ar[1].den * KernelSum(sigma, truncate)))

\* gaussian_filter(data, sigma=(sigma_xy, sigma_xy, sigma_z), truncate, mode="wrap")
_smooth_stm_data(s, data) ==
    Filter1d(Filter1d(Filter1d(data, grid, 1, s["sigma_xy"], s["truncate"]),
                      grid, 2, s["sigma_xy"], s["truncate"]),
             grid, 3, s["sigma_z"], s["truncate"])

\* a check that looks for label 0 among the bands only
StmDataUnavailable_bands_only == ~Contains(bands, 0)

\* TRUE when _get_stm_data raises for missing aggregated data
StmDataUnavailable == ~Contains(bands, 0) \/ ~Contains(kpoints, 0)

_get_stm_data(s, spin) ==
    IF StmDataUnavailable
    THEN [raised |-> ValueError("stm_data"), warned |-> <<>>]
    ELSE Let(to_array(0, 0, spin), LAMBDA a :
             IF a.raised # None THEN [raised |-> a.raised, warned |-> a.warned]
             ELSE [raised |-> None, warned |-> a.warned,
                   value |-> _smooth_stm_data(s, _correct_units(a.value))])

\* index of the minimum of the z-profile: mean over x and y, smoothed along z
min_of_z_charge(charge, sigma, truncate) ==
    Let(charge, LAMBDA c :
    Let(Filter1d(Arr([p \in {<<z>> : z \in 0 .. grid[3] - 1} |->
                         SumOver(Lateral(grid),
                                 [q \in Lateral(grid) |-> c.num[<<q[1], q[2], p[1]>>]])],
                     c.den * grid[1] * grid[2]),
                 <<grid[3]>>, 1, sigma, truncate), LAMBDA z_charge :
        Min({z \in 0 .. grid[3] - 1 :
               \A y \in 0 .. grid[3] - 1 : z_charge.num[<<z>>] <= z_charge.num[<<y>>]})))

----------------------------------------------------------------------------
(* The two scanners. *)

STM_data(data, lattice, label) == [data |-> data, lattice |-> lattice, label |-> label]

spin_label(spin) == IF spin = "both" THEN <<"both spin channels">> ELSE <<"spin", spin>>

\* CubicSpline(range(nz), column)(q / f).  With at most four knots the
\* not-a-knot spline is the polynomial through all knots, evaluated here in
\* Lagrange form; column is the z-line of a density array at lateral point ij.
CubicSpline(charge, ij, f, q) ==
    LET n == grid[3] - 1
        knots == 0 .. n
        Factorial(m) == Prod(1 .. m, [l \in 1 .. m |-> l])
        \* 1 / prod(m - l) = sign * Binomial(n, m) / n!
        weight(m) == (IF (n - m) % 2 = 0 THEN 1 ELSE -1)
                        * (Factorial(n) \div (Factorial(m) * Factorial(n - m)))
    IN  Rat(SumOver(knots,
                    [m \in knots |->
                        weight(m) * charge.num[<<ij[1], ij[2], m>>]
                          * Prod(knots \ {m}, [l \in knots \ {m} |-> q - l * f])]),
            charge.den * Factorial(n) * Prod(1 .. n, [l \in 1 .. n |-> f]))

\* a scan that stops at the first sample whose density is at most the target
RECURSIVE ScanLine_stops_below(_, _, _, _, _, _)
ScanLine_stops_below(charge, ij, f, current, q, k_before) ==
    IF q <= 0 THEN k_before
    ELSE IF RLeq(CubicSpline(charge, ij, f, q), current) THEN <<Rat(q, f)>>
    ELSE ScanLine_stops_below(charge, ij, f, current, q - 1, <<Rat(q, f)>>)

\* for k in np.arange(z_start, 0, -1 / f): if spl(k) >= current: break
\* k is counted in steps of 1/f: q = z_start * f, ..., 1.  Returns the value
\* of k after the loop, k_before when the loop body never runs.
RECURSIVE ScanLine(_, _, _, _, _, _)
ScanLine(charge, ij, f, current, q, k_before) ==
    IF q <= 0 THEN k_before
    ELSE IF RLeq(current, CubicSpline(charge, ij, f, q)) THEN <<Rat(q, f)>>
    ELSE ScanLine(charge, ij, f, current, q - 1, <<Rat(q, f)>>)

\* a scan whose lines start one sample below z_start
RECURSIVE ScanGrid_skips_first_sample(_, _, _, _, _, _, _)
ScanGrid_skips_first_sample(charge, z_start, f, current, n, k, cc_scan) ==
    IF n >= grid[1] * grid[2] THEN <<cc_scan>>
    ELSE Let(<<n \div grid[2], n % grid[2]>>, LAMBDA ij :
         Let(ScanLine(charge, ij, f, current, z_start * f - 1, k), LAMBDA k_after :
             IF k_after = <<>> THEN <<>>
             ELSE ScanGrid_skips_first_sample(charge, z_start, f, current, n + 1, k_after,
                                              [cc_scan EXCEPT ![ij] = k_after[1]])))

\* the double loop over the lateral grid, in the order of the source; k is
\* one local variable of the function, <<>> while it is unbound.  Returns
\* the values assigned to cc_scan, <<>> for the whole scan when an unbound
\* k is read.
RECURSIVE ScanGrid(_, _, _, _, _, _, _)
ScanGrid(charge, z_start, f, current, n, k, cc_scan) ==
    IF n >= grid[1] * grid[2] THEN <<cc_scan>>
    ELSE Let(<<n \div grid[2], n % grid[2]>>, LAMBDA ij :
         Let(ScanLine(charge, ij, f, current, z_start * f, k), LAMBDA k_after :
             IF k_after = <<>> THEN <<>>
             ELSE ScanGrid(charge, z_start, f, current, n + 1, k_after,
                           [cc_scan EXCEPT ![ij] = k_after[1]])))

\* the largest element in place of the smallest
RMin_takes_largest(S) == CHOOSE x \in S : \A y \in S : RLeq(y, x)

RMin(S) == CHOOSE x \in S : \A y \in S : RLeq(x, y)

_constant_current_stm(s, current, spin) ==
    Let(_get_stm_data(s, spin), LAMBDA d :
        IF d.raised # None
        THEN [raised |-> d.raised, warned |-> d.warned, locals |-> <<>>]
        ELSE
    Let(min_of_z_charge(d.value, s["sigma_z"], s["truncate"]), LAMBDA z_start :
    Let(ScanGrid(s["smoothed_charge"], z_start, s["interpolation_factor"], current,
                 0, <<>>, Tab([ij \in Lateral(grid) |-> <<0, 1>>])), LAMBDA scan :
        IF scan = <<>>
        THEN [raised |-> UnboundLocalError, warned |-> d.warned,
              locals |-> [z_start |-> z_start]]
        ELSE
    Let(RMin({scan[1][ij] : ij \in Lateral(grid)}), LAMBDA lowest :
        [raised |-> None, warned |-> d.warned,
         locals |-> [z_start |-> z_start, cc_scan |-> scan[1]],
         value |-> STM_data(Tab([ij \in Lateral(grid) |-> RSub(scan[1][ij], lowest)]),
                            <<lattice_vectors[1], lattice_vectors[2]>>,
                            <<"STM of", topology, "for", spin_label(spin),
                              "at constant current", current, "A">>)]))))

_constant_height_stm(s, tip_height, spin) ==
    Let(_z_index_for_height(s["tip_height"] + _get_highest_z_coord), LAMBDA z_index :
        IF z_index >= grid[3] \/ z_index < -grid[3]
        THEN [raised |-> IndexError, locals |-> [z_index |-> z_index]]
        ELSE [raised |-> None, locals |-> [z_index |-> z_index],
              value |->
                  STM_data(Tab([ij \in Lateral(grid) |->
                                   \* a negative index counts from the end
                                   RMul(At(s["smoothed_charge"],
                                           <<ij[1], ij[2],
                                             IF z_index < 0 THEN z_index + grid[3]
                                             ELSE z_index>>),
                                        <<s["enhancement_factor"], 1>>)]),
                           <<lattice_vectors[1], lattice_vectors[2]>>,
                           <<"STM of", topology, "for", spin_label(spin),
                             "at constant height", <<s["tip_height"]>>, "Angstrom">>)])

----------------------------------------------------------------------------
(* to_stm and plot_STM. *)

\* settings that fall back to the attribute of an earlier call, when there
\* is one, before the default
set_params_keeps_previous(s, kwargs) ==
    Tab([a \in DOMAIN s \cup DOMAIN default_params |->
            IF a \in DOMAIN kwargs THEN kwargs[a]
            ELSE IF a \in DOMAIN s THEN s[a]
            ELSE default_params[a]])

\* default_params.update(kwargs); self.sigma_z = default_params["sigma_z"]; ...
set_params(s, kwargs) ==
    Let([n \in DOMAIN default_params \cup DOMAIN kwargs |->
            IF n \in DOMAIN kwargs THEN kwargs[n] ELSE default_params[n]],
        LAMBDA params :
            Tab([a \in DOMAIN s \cup DOMAIN default_params |->
                    IF a \in DOMAIN default_params THEN params[a] ELSE s[a]]))

Outcome(s, r, l, w) == [self |-> s, ret |-> r, locals |-> l, warned |-> w]

\* one call of to_stm on the object with attributes s: the attributes after
\* the call, what it returns or raises, and its locals
to_stm(s, mode, tip_height, current, spin, kwargs) ==
    IF _check_z_orth THEN Outcome(s, ValueError("z_orth"), <<>>, <<>>)
    ELSE
    Let(Lower(mode) \in stm_modes.constant_height, LAMBDA height :
    Let(IF height THEN SetAttr(s, "tip_height", tip_height) ELSE s, LAMBDA s1 :
        IF height /\ _check_tip_height(s1)
        THEN Outcome(s1, ValueError("tip_height"), <<>>, <<>>)
        ELSE
    Let(set_params(s1, kwargs), LAMBDA s2 :
    Let(_get_stm_data(s2, spin), LAMBDA d :
        IF d.raised # None THEN Outcome(s2, d.raised, <<>>, d.warned)
        ELSE
    Let(SetAttr(s2, "smoothed_charge", d.value), LAMBDA s3 :
        IF height
        THEN Let(_constant_height_stm(s3, tip_height, spin), LAMBDA ch :
                 IF ch.raised # None THEN Outcome(s3, ch.raised, ch.locals, d.warned)
                 ELSE Outcome(SetAttr(s3, "STM", ch.value), ch.value, ch.locals,
                              d.warned))
        ELSE IF Lower(mode) \in stm_modes.constant_current
        THEN Let(_constant_current_stm(s3, current, spin), LAMBDA cc :
                 IF cc.raised # None
                 THEN Outcome(s3, cc.raised, cc.locals, d.warned \o cc.warned)
                 ELSE Outcome(SetAttr(s3, "STM", cc.value), cc.value, cc.locals,
                              d.warned \o cc.warned))
        ELSE Outcome(s3, ValueError("mode"), <<>>, d.warned))))))

\* a check that takes any stored setting for a computed scan
plot_STM_after_any_call(s) ==
    IF ~HasAttr(s, "sigma_z") THEN ValueError("STM is not calculated yet")
    ELSE [plotted |-> IF HasAttr(s, "STM") THEN s["STM"] ELSE None]

\* plot_STM: raises when no STM is stored, otherwise plots self.STM
plot_STM(s) ==
    IF ~HasAttr(s, "STM") THEN ValueError("STM is not calculated yet")
    ELSE [plotted |-> s["STM"]]

----------------------------------------------------------------------------
(* The object under test and the calls made on it. *)

\* a PartialCharge object on which no attribute has been assigned yet
Fresh == [a \in {} |-> 0]

\* the stored array: channel 0 is base (the density of column profile pa on
\* the even lateral points and pb on the odd ones), channel 1 a
\* magnetisation; each further band and k-point position holds its own data
Volume(pa, pb, ispin, nbands, nkpts) ==
    [key \in (0 .. NX - 1) \X (0 .. NY - 1) \X (0 .. NZ - 1)
                 \X (0 .. ispin - 1) \X (0 .. nbands - 1) \X (0 .. nkpts - 1) |->
        LET base == IF (key[1] + key[2]) % 2 = 0 THEN pa[key[3] + 1] ELSE pb[key[3] + 1]
        IN  IF key[4] = 0 THEN base + 3 * key[5] + 5 * key[6]
            ELSE (key[3] % 2) + key[5]]

Profiles == [1 .. NZ -> 0 .. MaxCharge]

\* a cell with lattice vectors (a00, a01, c02), (a10, a11, c12), (c20, c21, a22)
Lattice(inplane, c02, c12, c20, c21, a22) ==
    <<<<inplane[1], inplane[2], c02>>, <<inplane[3], inplane[4], c12>>, <<c20, c21, a22>>>>

InitWith(lattices, positions, labels, ispins, profiles) ==
    /\ lattice_vectors \in lattices
    /\ positions_z \in positions
    /\ topology = "Sr2TiO4"
    /\ grid = <<NX, NY, NZ>>
    /\ bands \in labels
    /\ kpoints \in labels
    /\ \E pp \in profiles, ispin \in ispins :
          partial_charge = Volume(pp[1], pp[2], ispin, Len(bands), Len(kpoints))
    /\ self = Fresh
    /\ call = [op |-> "init"]
    /\ ret = None
    /\ warned = <<>>
    /\ locals = <<>>
    /\ invocations = <<>>
    /\ files = <<>>
    /\ Viewer3d_arrows = <<>>
    /\ viewers = <<>>

ToStm(modes, tips, currents, spins, settings) ==
    \E mode \in modes, tip_height \in tips, current \in currents,
       spin \in spins, kwargs \in settings :
        \E o \in {to_stm(self, mode, tip_height, current, spin, kwargs)} :
            /\ self' = o.self
            /\ call' = [op |-> "to_stm", mode |-> mode, tip_height |-> tip_height,
                        current |-> current, spin |-> spin, kwargs |-> kwargs]
            /\ ret' = o.ret
            /\ warned' = o.warned
            /\ locals' = o.locals
            /\ UNCHANGED <<raw, invocations, files, Viewer3d_arrows, viewers>>

ToArray(indices, spins) ==
    \E band \in indices, kpoint \in indices, spin \in spins :
        \E a \in {to_array(band, kpoint, spin)} :
            /\ call' = [op |-> "to_array", band |-> band, kpoint |-> kpoint,
                        spin |-> spin]
            /\ ret' = IF a.raised # None THEN a.raised ELSE a.value
            /\ warned' = a.warned
            /\ locals' = <<>>
            /\ UNCHANGED <<raw, self, invocations, files, Viewer3d_arrows, viewers>>

PlotSTM ==
    /\ call' = [op |-> "plot_STM"]
    /\ ret' = plot_STM(self)
    /\ warned' = <<>>
    /\ locals' = <<>>
    /\ UNCHANGED <<raw, self, invocations, files, Viewer3d_arrows, viewers>>

----------------------------------------------------------------------------
(* Inputs. *)

\* to_stm(mode="constant_height", tip_height=2.0, current=1e-9, spin="both")
DefaultTipHeight == 2
DefaultCurrent == <<1, 1000000000>>

NoKwargs == Fresh
Narrow == [sigma_z |-> 1, sigma_xy |-> 1, truncate |-> 1,
           enhancement_factor |-> 2, interpolation_factor |-> 2]

Bright == [sigma_z |-> 1, sigma_xy |-> 1, truncate |-> 1,
           enhancement_factor |-> 3, interpolation_factor |-> 2]

Fine == [sigma_z |-> 1, sigma_xy |-> 1, truncate |-> 1,
         enhancement_factor |-> 2, interpolation_factor |-> 3]

Square == <<1, 0, 0, 1>>
InPlane == {Square, <<1, 1, 0, 1>>, <<2, 0, 1, 1>>}
Orthogonal == {Lattice(Square, 0, 0, 0, 0, a22) : a22 \in {6, 7}}
Slabs == {<<0, 1>>, <<0, 2>>, <<4, 5>>}
Currents == {<<1, 100>>, <<1, 30>>, <<7, 200>>, <<1, 10>>}
Decaying == <<[z \in 1 .. NZ |-> IF z = 1 THEN MaxCharge ELSE IF z = 2 THEN 1 ELSE 0],
              [z \in 1 .. NZ |-> IF z = 1 THEN MaxCharge ELSE 0]>>
Flat == <<[z \in 1 .. NZ |-> 1], [z \in 1 .. NZ |-> 1]>>

----------------------------------------------------------------------------
(* The object under any sequence of calls. *)

Init == InitWith({Lattice(Square, 0, 0, 0, 0, 6)}, {<<0, 2>>}, {<<0>>}, {2}, {Decaying, Flat})

HeightCall ==
    ToStm({"constant_height"}, 1 .. MaxTip, {DefaultCurrent}, {"both"},
          {NoKwargs, Narrow})
CurrentCall ==
    ToStm({"constant_current"}, {DefaultTipHeight}, {<<1, 100>>, <<1, 30>>},
          {"both", "total"}, {NoKwargs, Narrow})
OtherCall ==
    ToStm({"constant"}, {DefaultTipHeight}, {DefaultCurrent}, {"up"}, {NoKwargs})
ArrayCall == ToArray({0}, {"both"})
PlotCall == PlotSTM

Next == HeightCall \/ CurrentCall \/ OtherCall \/ ArrayCall \/ PlotCall

Spec == Init /\ [][Next]_vars

\* C10: whatever calls were made before, a to_stm call returns, or fails
\* with, what the same call returns on an object on which nothing was called;
\* settings left out of the call take their defaults.
C10_PureCall ==
    call.op = "to_stm" =>
        ret = to_stm(Fresh, call.mode, call.tip_height, call.current, call.spin,
                     call.kwargs).ret

\* a completed constant-current scan with default settings on an object that
\* still holds the tip height of an earlier constant-height call
C10_Witness ==
    /\ call.op = "to_stm"
    /\ call.mode = "constant_current"
    /\ call.kwargs = NoKwargs
    /\ "data" \in DOMAIN ret
    /\ HasAttr(self, "tip_height")
    /\ self["tip_height"] # call.tip_height

\* the scan stored on the object, if any
StoredScan == IF HasAttr(self, "STM") THEN <<self["STM"]>> ELSE <<>>

\* C17: the object starts without a scan, every completed to_stm call makes
\* its result the stored scan and no other step changes the stored scan, and
\* plot_STM raises ValueError exactly when no scan is stored and otherwise
\* plots the stored one: the result of the most recent completed to_stm call.
C17_PlotLatest ==
    /\ StoredScan = <<>>
    /\ [][IF call'.op = "to_stm" /\ "data" \in DOMAIN ret'
          THEN StoredScan' = <<ret'>>
          ELSE StoredScan' = StoredScan]_vars
    /\ [](call.op = "plot_STM" =>
              ret = IF StoredScan = <<>> THEN ValueError("STM is not calculated yet")
                    ELSE [plotted |-> StoredScan[1]])

\* the scan of an earlier constant-height call plotted after a later call
\* with another tip height has failed
C17_Witness ==
    /\ call.op = "plot_STM"
    /\ "plotted" \in DOMAIN ret
    /\ ret.plotted.label[5] = "at constant height"
    /\ ret.plotted.label[6] # <<self["tip_height"]>>

\* C20: a to_stm call that raises leaves every attribute of the object as
\* it was before the call: the stored tip height, the five settings, the
\* smoothed volume and the stored scan.
C20_FailedCallFrame ==
    [][call'.op = "to_stm" /\ "data" \notin DOMAIN ret' => self' = self]_vars

\* C15: every scan returned by to_stm holds a data array over the nx x ny
\* lateral grid, the 2x2 in-plane block of the lattice vectors, and a label.
C15_ScanResultShape ==
    call.op = "to_stm" /\ "data" \in DOMAIN ret =>
        /\ DOMAIN ret.data = (0 .. grid[1] - 1) \X (0 .. grid[2] - 1)
        /\ ret.lattice = <<<<lattice_vectors[1][1], lattice_vectors[1][2]>>,
                           <<lattice_vectors[2][1], lattice_vectors[2][2]>>>>
        /\ "label" \in DOMAIN ret

----------------------------------------------------------------------------
(* Cells of every orientation: to_stm in both modes. *)

Tilts == -MaxTilt .. MaxTilt

InitGeom ==
    InitWith({Lattice(inplane, c02, c12, c20, c21, a22) :
                 inplane \in InPlane, c02 \in Tilts, c12 \in Tilts,
                 c20 \in Tilts, c21 \in Tilts, a22 \in {6, 7}},
             {<<0, 2>>}, {<<0>>}, {1}, {Decaying})

GeomHeight ==
    ToStm({"constant_height"}, {DefaultTipHeight}, {DefaultCurrent}, {"both"}, {Narrow})
GeomCurrent ==
    ToStm({"constant_current"}, {DefaultTipHeight}, {<<1, 30>>}, {"both"}, {Narrow})

NextGeom == GeomHeight \/ GeomCurrent

SpecGeom == InitGeom /\ [][NextGeom]_vars

\* C1: to_stm fails with the geometry error exactly when one of lattice[0][2],
\* lattice[1][2], lattice[2][0], lattice[2][1] is nonzero, in both modes and
\* whatever the other five entries are.
C1_GeometryCheck ==
    call.op = "to_stm" =>
        ((ret = ValueError("z_orth")) <=>
            (\/ lattice_vectors[1][3] # 0
             \/ lattice_vectors[2][3] # 0
             \/ lattice_vectors[3][1] # 0
             \/ lattice_vectors[3][2] # 0))

\* a constant-current call rejected for the single nonzero entry lattice[1][2]
C1_Witness ==
    /\ call.op = "to_stm"
    /\ call.mode = "constant_current"
    /\ ret = ValueError("z_orth")
    /\ lattice_vectors[2][3] # 0
    /\ lattice_vectors[1][3] = 0
    /\ lattice_vectors[3][1] = 0
    /\ lattice_vectors[3][2] = 0
    /\ lattice_vectors[1][2] # 0

----------------------------------------------------------------------------
(* Slabs in orthogonal cells: the tip placement and the slice of the
   constant-height scanner. *)

InitTip == InitWith(Orthogonal, Slabs, {<<0>>}, {1}, {Decaying})

TipHeightCall ==
    ToStm({"constant_height", "CH"}, 0 .. MaxTip, {DefaultCurrent}, {"both", "up"},
          {Narrow})
TipCurrentCall ==
    ToStm({"constant_current"}, 0 .. MaxTip, {<<1, 30>>}, {"both"}, {Narrow})

NextTip == TipHeightCall \/ TipCurrentCall

SpecTip == InitTip /\ [][NextTip]_vars

HeightMode(mode) == Lower(mode) \in {"constant_height", "ch", "constant height"}
CurrentMode(mode) == Lower(mode) \in {"constant_current", "cc", "constant current"}
AtomicZ == {positions_z[n] : n \in DOMAIN positions_z}
Succeeded == "data" \in DOMAIN ret

\* C2: in constant-height mode to_stm fails with the tip-placement error
\* exactly when tip_height > (lattice[2][2] - (max z - min z)) / 2, so a tip at
\* exactly half the vacuum passes; in constant-current mode the call never
\* fails with that error and returns the same whatever tip_height is passed.
C2_TipPlacement ==
    /\ [](call.op = "to_stm" =>
            LET estimated_vacuum == lattice_vectors[3][3] - (Max(AtomicZ) - Min(AtomicZ))
            IN  /\ HeightMode(call.mode) =>
                       ((ret = ValueError("tip_height")) <=>
                            (2 * call.tip_height > estimated_vacuum))
                /\ CurrentMode(call.mode) => ret # ValueError("tip_height"))
    /\ [][call'.op = "to_stm" /\ CurrentMode(call'.mode) =>
             \A tip \in 0 .. MaxTip :
                 ret' = to_stm(self, call'.mode, tip, call'.current, call'.spin,
                               call'.kwargs).ret]_vars

\* a constant-height scan completed with the tip at exactly half the vacuum
C2_Witness ==
    /\ call.op = "to_stm"
    /\ HeightMode(call.mode)
    /\ 2 * call.tip_height = lattice_vectors[3][3] - (Max(AtomicZ) - Min(AtomicZ))
    /\ Succeeded

\* C9: every completed constant-height scan slices at the index nearest to
\* (tip_height + max z) / lattice[2][2] * nz and returns the smoothed density
\* there times enhancement_factor.
C9_RoundedSlice ==
    call.op = "to_stm" /\ HeightMode(call.mode) /\ Succeeded =>
        LET index == RoundHalfEven((call.tip_height + Max(AtomicZ)) * grid[3],
                                   lattice_vectors[3][3])
        IN  /\ locals.z_index = index
            /\ \A ij \in Lateral(grid) :
                   ret.data[ij] = RMul(At(self["smoothed_charge"], <<ij[1], ij[2], index>>),
                                       <<self["enhancement_factor"], 1>>)

\* C21: whenever the tip-placement check accepts a constant-height call,
\* the index computed from tip_height + max z lies in 0 .. nz - 1, so the
\* slice of the smoothed volume never fails and never wraps around.
C21_SliceInRange ==
    call.op = "to_stm" /\ HeightMode(call.mode) /\ ret # ValueError("tip_height") =>
        /\ ret # IndexError
        /\ "z_index" \in DOMAIN locals => locals.z_index \in 0 .. grid[3] - 1

----------------------------------------------------------------------------
(* Volumes with separated bands and k-points, with one or two spin
   channels: the selection made by to_array. *)

LabelArrays == {<<0>>, <<2, 0>>, <<2, 4>>, <<0, 3>>}
SpinLabels == {"both", "up", "down", "total", "sideways"}

InitSelect ==
    InitWith({Lattice(Square, 0, 0, 0, 0, 6)}, {<<0, 2>>}, LabelArrays, {1, 2}, {Decaying})

SelectArray == ToArray(0 .. MaxIndex, SpinLabels)
SelectStm ==
    ToStm({"constant_height"}, {DefaultTipHeight}, {DefaultCurrent}, SpinLabels, {Narrow})

NextSelect == SelectArray \/ SelectStm

SpecSelect == InitSelect /\ [][NextSelect]_vars

Resolvable(labels, index) == Contains(labels, index) \/ Contains(labels, 0)
PositionOfLabel(labels, index) ==
    IF Contains(labels, index) THEN Where(labels, index) ELSE Where(labels, 0)

\* C3: to_array returns the data at the position of the requested band and
\* k-point label when present; when a label is absent but label 0 is stored it
\* warns and returns the data at the position of label 0, wherever that is;
\* when neither is stored it fails with the data-unavailable error.
C3_IndexResolution ==
    call.op = "to_array" /\ call.spin = "both" =>
        IF Resolvable(bands, call.band) /\ Resolvable(kpoints, call.kpoint)
        THEN /\ ret = Arr(Channel(0, PositionOfLabel(bands, call.band),
                                  PositionOfLabel(kpoints, call.kpoint)), 1)
             /\ (warned # <<>>) <=>
                    (~Contains(bands, call.band) \/ ~Contains(kpoints, call.kpoint))
        ELSE ret \in {ValueError("band"), ValueError("kpoint")}

\* C4: a spin label that is not recognised makes to_array, and to_stm, fail
\* with the invalid-selection error on every volume whose band and k-point
\* resolve, with one spin channel or with two.
C4_InvalidSpin ==
    /\ call.op = "to_array" /\ call.spin \notin {"both", "up", "down", "total"}
           /\ Resolvable(bands, call.band) /\ Resolvable(kpoints, call.kpoint)
       => ret = ValueError("spin")
    /\ call.op = "to_stm" /\ call.spin \notin {"both", "up", "down", "total"}
           /\ Resolvable(bands, 0) /\ Resolvable(kpoints, 0)
       => ret = ValueError("spin")

----------------------------------------------------------------------------
(* to_array alone on the same volumes. *)

ArrayTotal == ToArray(0 .. MaxIndex, {"both", "total"})
ArrayUpDown == ToArray(0 .. MaxIndex, {"up", "down"})

NextArray == ArrayTotal \/ ArrayUpDown

SpecArray == InitSelect /\ [][NextArray]_vars

\* the stored value of spin channel s at grid point p of the band and k-point
\* positions b and k
Stored(p, s, b, k) == partial_charge[<<p[1], p[2], p[3], s, b, k>>]

\* C13: on a volume with one spin channel whose bands and k-points contain
\* label 0, to_array(band=0, kpoint=0) with the total-spin selection returns
\* the stored channel-0 values at the positions of label 0, element for
\* element, and the stored volume stays as it was.
C13_RoundTrip ==
    /\ [](call.op = "to_array" /\ call.band = 0 /\ call.kpoint = 0
               /\ call.spin \in {"both", "total"}
               /\ ~(\E key \in DOMAIN partial_charge : key[4] = 1)
               /\ Contains(bands, 0) /\ Contains(kpoints, 0)
           => /\ "num" \in DOMAIN ret
              /\ \A p \in Points(grid) :
                     At(ret, p) = <<Stored(p, 0, Where(bands, 0), Where(kpoints, 0)), 1>>)
    /\ [][call'.op = "to_array" => partial_charge' = partial_charge]_vars

\* the aggregated data read back from a volume that stores label 0 after
\* another label
C13_Witness ==
    /\ call.op = "to_array" /\ call.band = 0 /\ call.kpoint = 0 /\ call.spin = "total"
    /\ ~_spin_polarized
    /\ bands = <<2, 0>> /\ kpoints = <<2, 0>>
    /\ "num" \in DOMAIN ret

\* C14: on a volume with two spin channels, for a stored band and k-point
\* label, to_array gives (c0 + c1) / 2 for spin up and (c0 - c1) / 2 for spin
\* down at every grid point, so up + down is the total-spin result c0 and
\* up - down is c1.
C14_SpinChannels ==
    call.op = "to_array" /\ (\E key \in DOMAIN partial_charge : key[4] = 1)
        /\ Contains(bands, call.band) /\ Contains(kpoints, call.kpoint) =>
        LET b == Where(bands, call.band)
            k == Where(kpoints, call.kpoint)
            up == to_array(call.band, call.kpoint, "up").value
            down == to_array(call.band, call.kpoint, "down").value
            total == to_array(call.band, call.kpoint, "both").value
        IN  /\ call.spin = "up" => ret = up
            /\ call.spin = "down" => ret = down
            /\ call.spin = "both" => ret = total
            /\ \A p \in Points(grid) :
                   /\ At(up, p) = Rat(Stored(p, 0, b, k) + Stored(p, 1, b, k), 2)
                   /\ At(down, p) = Rat(Stored(p, 0, b, k) - Stored(p, 1, b, k), 2)
                   /\ RAdd(At(up, p), At(down, p)) = At(total, p)
                   /\ At(total, p) = <<Stored(p, 0, b, k), 1>>
                   /\ RSub(At(up, p), At(down, p)) = <<Stored(p, 1, b, k), 1>>

\* spin down read at the second band position of a volume with a
\* magnetization that is not zero everywhere
C14_Witness ==
    /\ call.op = "to_array" /\ call.spin = "down" /\ call.band = 3
    /\ bands = <<0, 3>>
    /\ _spin_polarized
    /\ "num" \in DOMAIN ret
    /\ \E p \in Points(grid) : Stored(p, 1, 1, Where(kpoints, call.kpoint)) # 0
    /\ Contains(kpoints, call.kpoint)

\* to_stm in both modes on the same volumes
AggregateHeight ==
    ToStm({"constant_height"}, {1, DefaultTipHeight}, {DefaultCurrent}, {"both", "up"},
          {Narrow, Bright})
AggregateCurrent ==
    ToStm({"constant_current"}, {DefaultTipHeight}, {<<1, 30>>, <<1, 100>>}, {"both", "up"},
          {Narrow, Fine})

NextAggregate == AggregateHeight \/ AggregateCurrent

SpecAggregate == InitSelect /\ [][NextAggregate]_vars

\* C12: when label 0 is missing from the bands or from the k-points, to_stm
\* fails in either mode with the data-unavailable error and the object holds
\* no scan; when label 0 is in both, to_stm emits no warning and smooths the
\* data stored at the positions of label 0.
C12_AggregatedData ==
    call.op = "to_stm" =>
        IF ~(\E n \in DOMAIN bands : bands[n] = 0) \/ ~(\E n \in DOMAIN kpoints : kpoints[n] = 0)
        THEN ret = ValueError("stm_data") /\ ~HasAttr(self, "STM")
        ELSE /\ warned = <<>>
             /\ ret # ValueError("stm_data")
             /\ call.spin = "both" =>
                    self["smoothed_charge"]
                        = _smooth_stm_data(self, _correct_units(
                              Arr(Channel(0, Where(bands, 0), Where(kpoints, 0)), 1)))

\* a constant-current call failing for k-points stored without label 0
C12_Witness ==
    /\ call.op = "to_stm"
    /\ call.mode = "constant_current"
    /\ Contains(bands, 0)
    /\ ~Contains(kpoints, 0)
    /\ ret = ValueError("stm_data")

----------------------------------------------------------------------------
(* Mode strings of every kind passed to to_stm. *)

ModeAliases == {"constant_height", "ch", "CH", "constant height", "Constant_Height",
                "constant_current", "cc", "CC", "constant current", "Constant Current"}
ModeOthers == {"height", "current", "constant_height up", "cc down", "up down",
               "cc ch", "up", "stm", ""}

InitMode ==
    InitWith({Lattice(Square, 0, 0, 0, 0, 6)}, {<<0, 2>>}, {<<0>>}, {1, 2}, {Decaying})

ModeAliasCall ==
    ToStm(ModeAliases, {DefaultTipHeight}, {<<1, 30>>}, {"both", "up"}, {Narrow})
ModeOtherCall ==
    ToStm(ModeOthers, {DefaultTipHeight}, {<<1, 30>>}, {"both", "up"}, {Narrow})

NextMode == ModeAliasCall \/ ModeOtherCall

SpecMode == InitMode /\ [][NextMode]_vars

----------------------------------------------------------------------------
(* Density columns of every shape under the constant-current scanner. *)


InitScan ==
    InitWith({Lattice(Square, 0, 0, 0, 0, 6)}, {<<0, 2>>}, {<<0>>}, {1},
             {<<p, Decaying[2]>> : p \in Profiles})

ScanCall == ToStm({"constant_current"}, {DefaultTipHeight}, Currents, {"both"}, {Narrow})
ScanFineCall == ToStm({"cc"}, {DefaultTipHeight}, {<<1, 30>>, <<7, 200>>}, {"both"}, {Fine})

NextScan == ScanCall \/ ScanFineCall

SpecScan == InitScan /\ [][NextScan]_vars

\* the interpolated density of column ij of the smoothed volume at height q / f
Density(ij, q) ==
    CubicSpline(self["smoothed_charge"], ij, self["interpolation_factor"], q)
\* the samples z_start, z_start - 1/f, ... above 0, counted in steps of 1/f
Samples == 1 .. locals.z_start * self["interpolation_factor"]
Reaches(ij, q) == RLeq(call.current, Density(ij, q))
CurrentScanDone == call.op = "to_stm" /\ CurrentMode(call.mode) /\ Succeeded

\* C6: in a completed constant-current scan the raw value of every lateral
\* point is a sample q / f of the sequence from z_start down to above 0, no
\* earlier sample of that column reaches the target, the value itself reaches
\* it when any sample does, and equal columns get equal values.
C6_FirstCrossing ==
    CurrentScanDone =>
        /\ \A ij \in Lateral(grid) :
               \E q \in Samples :
                   /\ locals.cc_scan[ij] = Rat(q, self["interpolation_factor"])
                   /\ \A e \in Samples : e > q => ~Reaches(ij, e)
                   /\ (\E e \in Samples : Reaches(ij, e)) => Reaches(ij, q)
        /\ \A ij \in Lateral(grid), uv \in Lateral(grid) :
               (\A z \in 0 .. grid[3] - 1 :
                    At(self["smoothed_charge"], <<ij[1], ij[2], z>>)
                        = At(self["smoothed_charge"], <<uv[1], uv[2], z>>))
                   => locals.cc_scan[ij] = locals.cc_scan[uv]

\* a completed scan with one column crossing at the first sample and another
\* crossing at a later one
C6_Witness ==
    /\ CurrentScanDone
    /\ \E ij \in Lateral(grid), uv \in Lateral(grid) :
           /\ Reaches(ij, locals.z_start * self["interpolation_factor"])
           /\ ~Reaches(uv, locals.z_start * self["interpolation_factor"])
           /\ \E q \in Samples : Reaches(uv, q)

\* C7: a constant-current call completes without error from every z_start in
\* 0 .. nz - 1, and a column none of whose samples reaches the target gets the
\* last sampled index.
C7_NoCrossingClamp ==
    call.op = "to_stm" /\ CurrentMode(call.mode) =>
        /\ Succeeded
        /\ \A ij \in Lateral(grid) :
               (\A q \in Samples : ~Reaches(ij, q))
                   => locals.cc_scan[ij] = Rat(1, self["interpolation_factor"])

\* C16: the map returned by a completed constant-current scan is the map of
\* raw crossing indices minus one constant, the smallest raw index: the
\* difference between any two lateral points is the raw one, every entry is
\* >= 0 and some entry is 0.
C16_Normalised ==
    CurrentScanDone =>
        /\ \A ij \in Lateral(grid), uv \in Lateral(grid) :
               RSub(ret.data[ij], ret.data[uv])
                   = RSub(locals.cc_scan[ij], locals.cc_scan[uv])
        /\ \A ij \in Lateral(grid) : RLeq(<<0, 1>>, ret.data[ij])
        /\ \E ij \in Lateral(grid) : ret.data[ij] = <<0, 1>>
        /\ \E ij \in Lateral(grid) :
               \A uv \in Lateral(grid) :
                   ret.data[uv] = RSub(locals.cc_scan[uv], locals.cc_scan[ij])

\* a completed scan whose map is not flat
C16_Witness ==
    /\ CurrentScanDone
    /\ \E ij \in Lateral(grid), uv \in Lateral(grid) :
           /\ ret.data[ij] = <<0, 1>>
           /\ RLess(<<0, 1>>, ret.data[uv])
           /\ RLess(<<0, 1>>, locals.cc_scan[ij])

\* C8: in a completed constant-current scan, for every column whose sampled
\* density does not decrease as the index goes from z_start toward 0, the
\* crossing index for a target above the requested one is not larger, and
\* for a target below it not smaller.
C8_MonotoneInCurrent ==
    CurrentScanDone =>
        \A other \in Currents :
            Let(ScanGrid(self["smoothed_charge"], locals.z_start,
                         self["interpolation_factor"], other, 0, <<>>, locals.cc_scan),
                LAMBDA scan :
                    \A ij \in Lateral(grid) :
                        (\A q \in Samples : q + 1 \in Samples =>
                                RLeq(Density(ij, q + 1), Density(ij, q)))
                            => /\ RLeq(call.current, other) =>
                                      RLeq(scan[1][ij], locals.cc_scan[ij])
                               /\ RLeq(other, call.current) =>
                                      RLeq(locals.cc_scan[ij], scan[1][ij]))

\* a completed scan of a column decreasing with height whose crossing moves
\* strictly toward the bulk for a higher target
C8_Witness ==
    /\ CurrentScanDone
    /\ \E other \in Currents, ij \in Lateral(grid) :
           /\ RLess(call.current, other)
           /\ \A q \in Samples : q + 1 \in Samples =>
                  RLess(Density(ij, q + 1), Density(ij, q))
           /\ RLess(ScanGrid(self["smoothed_charge"], locals.z_start,
                             self["interpolation_factor"], other, 0, <<>>,
                             locals.cc_scan)[1][ij],
                    locals.cc_scan[ij])

----------------------------------------------------------------------------
(* Two threads calling to_stm on one object.  An invocation advances one
   statement group of to_stm at a time; every group reads and writes the
   attributes of the shared object as the source does.  The groups are no
   finer than the source's statements, so every interleaving here is one
   the interpreter can schedule. *)


Requests ==
    {[mode |-> "constant_height", tip_height |-> 1, current |-> DefaultCurrent,
      spin |-> "both", kwargs |-> Narrow],
     [mode |-> "constant_height", tip_height |-> DefaultTipHeight,
      current |-> DefaultCurrent, spin |-> "both", kwargs |-> Bright],
     [mode |-> "constant_current", tip_height |-> DefaultTipHeight,
      current |-> <<1, 30>>, spin |-> "both", kwargs |-> Fine]}

MaxThreads == 2

InitConcurrent ==
    InitWith({Lattice(Square, 0, 0, 0, 0, 6)}, {<<0, 2>>}, {<<0>>}, {1}, {Decaying})

\* invocation t moves to statement group pc, or ends with ret
Goto(t, pc) == invocations' = [invocations EXCEPT ![t].pc = pc]
Finish(t, r) == invocations' = [invocations EXCEPT ![t].pc = "done", ![t].ret = r]
At_(pc) == {t \in DOMAIN invocations : invocations[t].pc = pc}

\* a thread enters to_stm with its own arguments
Invoke ==
    /\ Len(invocations) < MaxThreads
    /\ \E request \in Requests :
          invocations' = Append(invocations, [pc |-> "check_z_orth", request |-> request,
                                              ret |-> None])
    /\ UNCHANGED <<raw, self, call, ret, warned, locals, files, Viewer3d_arrows, viewers>>

\* self._check_z_orth()
StepCheckZOrth ==
    \E t \in At_("check_z_orth") :
        /\ IF _check_z_orth THEN Finish(t, ValueError("z_orth"))
           ELSE IF Lower(invocations[t].request.mode) \in stm_modes.constant_height
           THEN Goto(t, "store_tip_height")
           ELSE Goto(t, "store_settings")
        /\ UNCHANGED <<raw, self, call, ret, warned, locals, files, Viewer3d_arrows, viewers>>

\* self.tip_height = tip_height
StepStoreTipHeight ==
    \E t \in At_("store_tip_height") :
        /\ self' = SetAttr(self, "tip_height", invocations[t].request.tip_height)
        /\ Goto(t, "check_tip_height")
        /\ UNCHANGED <<raw, call, ret, warned, locals, files, Viewer3d_arrows, viewers>>

\* self._check_tip_height()
StepCheckTipHeight ==
    \E t \in At_("check_tip_height") :
        /\ IF _check_tip_height(self) THEN Finish(t, ValueError("tip_height"))
           ELSE Goto(t, "store_settings")
        /\ UNCHANGED <<raw, self, call, ret, warned, locals, files, Viewer3d_arrows, viewers>>

\* default_params.update(kwargs); self.sigma_z = ...; ... self.interpolation_factor = ...
StepStoreSettings ==
    \E t \in At_("store_settings") :
        /\ self' = set_params(self, invocations[t].request.kwargs)
        /\ Goto(t, "smooth")
        /\ UNCHANGED <<raw, call, ret, warned, locals, files, Viewer3d_arrows, viewers>>

\* self.smoothed_charge = self._get_stm_data(spin)
StepSmooth ==
    \E t \in At_("smooth") :
        \E d \in {_get_stm_data(self, invocations[t].request.spin)} :
            /\ IF d.raised # None THEN Finish(t, d.raised) /\ UNCHANGED self
               ELSE Goto(t, "scan") /\ self' = SetAttr(self, "smoothed_charge", d.value)
            /\ UNCHANGED <<raw, call, ret, warned, locals, files, Viewer3d_arrows, viewers>>

\* self.STM = self._constant_height_stm(tip_height, spin), or
\* self.STM = self._constant_current_stm(current, spin), or the mode error
StepScan ==
    \E t \in At_("scan") :
        \E request \in {invocations[t].request} :
        \E scan \in {IF Lower(request.mode) \in stm_modes.constant_height
                     THEN _constant_height_stm(self, request.tip_height, request.spin)
                     ELSE IF Lower(request.mode) \in stm_modes.constant_current
                     THEN _constant_current_stm(self, request.current, request.spin)
                     ELSE [raised |-> ValueError("mode")]} :
            /\ IF scan.raised # None THEN Finish(t, scan.raised) /\ UNCHANGED self
               ELSE Goto(t, "return") /\ self' = SetAttr(self, "STM", scan.value)
            /\ UNCHANGED <<raw, call, ret, warned, locals, files, Viewer3d_arrows, viewers>>

\* return self.STM
StepReturn ==
    \E t \in At_("return") :
        /\ Finish(t, self["STM"])
        /\ UNCHANGED <<raw, self, call, ret, warned, locals, files, Viewer3d_arrows, viewers>>

NextConcurrent ==
    \/ Invoke \/ StepCheckZOrth \/ StepStoreTipHeight \/ StepCheckTipHeight
    \/ StepStoreSettings \/ StepSmooth \/ StepScan \/ StepReturn

SpecConcurrent == InitConcurrent /\ [][NextConcurrent]_vars

\* what the invocation of a request returns when it runs alone
Alone(request) ==
    to_stm(Fresh, request.mode, request.tip_height, request.current, request.spin,
           request.kwargs).ret

\* C11: under every interleaving, each of two to_stm invocations on one
\* object returns what it returns when run alone.
C11_Isolated ==
    \A t \in DOMAIN invocations :
        invocations[t].pc = "done" => invocations[t].ret = Alone(invocations[t].request)

----------------------------------------------------------------------------
(* DataTrajectory (data/_trajectory.py): the steps selected with [].
   A trajectory is the sequence of its steps 0 .. N - 1.  A key is
   [int |-> n], [start |-> a, stop |-> b] for a slice, or [str |-> s]; a
   missing slice bound (None) is <<>> and a bound n is <<n>>.  The object
   under test is self, and ret is the instance __getitem__ returns. *)

MaxSteps == 3    \* longest trajectory

IncorrectUsage(message) == [type |-> "IncorrectUsage", message |-> message]

slice(start, stop) == [start |-> start, stop |-> stop]
IsSlice(steps) == DOMAIN steps = {"start", "stop"}

\* the indices sequence[slice] selects in a sequence of length n (step None)
SliceIndices(n, s) ==
    LET clamp(b, missing) ==
            IF b = <<>> THEN missing
            ELSE IF b[1] < 0 THEN Max({b[1] + n, 0})
            ELSE Min({b[1], n})
    IN  clamp(s.start, 0) .. clamp(s.stop, n) - 1

\* slice(steps, steps + 1), IncorrectUsage when steps + 1 is a TypeError
_create_slice_for_current_step_if_possible(steps) ==
    IF DOMAIN steps = {"int"} THEN slice(<<steps.int>>, <<steps.int + 1>>)
    ELSE IncorrectUsage("Error creating slice [" \o steps.str \o ":" \o steps.str
                        \o " + 1], please check the access operator argument.")

\* a selection that treats -1 like every other step
_set_steps_and_slice_without_final_step(instance, steps) ==
    Let(IF IsSlice(steps) THEN steps
        ELSE _create_slice_for_current_step_if_possible(steps), LAMBDA _slice :
        IF "type" \in DOMAIN _slice THEN _slice
        ELSE [_raw_data |-> instance._raw_data, _steps |-> steps,
              _is_slice |-> IsSlice(steps), _slice |-> _slice])

\* the instance after _set_steps_and_slice(steps), or the exception raised
_set_steps_and_slice(instance, steps) ==
    Let(IF IsSlice(steps) THEN steps
        ELSE IF steps = [int |-> -1] THEN slice(<<-1>>, <<>>)
        ELSE _create_slice_for_current_step_if_possible(steps), LAMBDA _slice :
        IF "type" \in DOMAIN _slice THEN _slice
        ELSE [_raw_data |-> instance._raw_data, _steps |-> steps,
              _is_slice |-> IsSlice(steps), _slice |-> _slice])

\* DataTrajectory._initialize
_initialize(instance) == _set_steps_and_slice(instance, [int |-> -1])

\* the steps an instance reads: sequence[self._slice]
StepsRead(instance) == SliceIndices(Len(instance._raw_data), instance._slice)

InitTrajectory ==
    /\ lattice_vectors = Lattice(Square, 0, 0, 0, 0, 6)
    /\ positions_z = <<0, 2>>
    /\ topology = "Sr2TiO4"
    /\ grid = <<NX, NY, NZ>>
    /\ bands = <<0>>
    /\ kpoints = <<0>>
    /\ partial_charge = Volume(Decaying[1], Decaying[2], 1, 1, 1)
    /\ \E n \in 1 .. MaxSteps :
          self = _initialize([_raw_data |-> [step \in 1 .. n |-> step - 1]])
    /\ call = [op |-> "init"]
    /\ ret = None
    /\ warned = <<>>
    /\ locals = <<>>
    /\ invocations = <<>>
    /\ files = <<>>
    /\ Viewer3d_arrows = <<>>
    /\ viewers = <<>>

\* the keys tried: steps, slices with and without bounds, strings
Keys ==
    LET SliceBounds == {<<>>} \cup {<<n>> : n \in -MaxSteps .. MaxSteps}
    IN  {[int |-> n] : n \in -MaxSteps - 1 .. MaxSteps}
            \cup {slice(a, b) : a \in SliceBounds, b \in SliceBounds}
            \cup {[str |-> "final"], [str |-> "-1"]}

\* new = copy.copy(self); return new._set_steps_and_slice(steps)
GetItem ==
    \E steps \in Keys :
        /\ call' = [op |-> "__getitem__", steps |-> steps]
        /\ ret' = _set_steps_and_slice(self, steps)
        /\ UNCHANGED <<raw, self, warned, locals, invocations, files, Viewer3d_arrows, viewers>>

\* the returned instance selects again
Select ==
    /\ "_slice" \in DOMAIN ret
    /\ ret # self
    /\ self' = ret
    /\ call' = [op |-> "select"]
    /\ UNCHANGED <<raw, ret, warned, locals, invocations, files, Viewer3d_arrows, viewers>>

NextTrajectory == GetItem \/ Select

SpecTrajectory == InitTrajectory /\ [][NextTrajectory]_vars

\* C18: with N steps, an instance without selection reads the final step
\* only; instance[n] with -N <= n < N reads the one step n (counted from the
\* end when negative); instance[a:b] reads the steps i with a <= i < b, a
\* and b counted from the end when negative and a missing bound standing for
\* the end of that side; a string key fails with IncorrectUsage.
C18_SelectedSteps ==
    LET N == Len(self._raw_data)
        FromStart(b, missing) ==
            IF b = <<>> THEN missing ELSE IF b[1] < 0 THEN b[1] + N ELSE b[1]
    IN  /\ call.op = "init" => StepsRead(self) = {N - 1}
        /\ call.op = "__getitem__" =>
               /\ DOMAIN call.steps = {"int"} /\ -N <= call.steps.int /\ call.steps.int < N
                      => StepsRead(ret) = {call.steps.int % N}
               /\ DOMAIN call.steps = {"start", "stop"}
                      => StepsRead(ret) =
                            {i \in 0 .. N - 1 : FromStart(call.steps.start, 0) <= i
                                                  /\ i < FromStart(call.steps.stop, N)}
               /\ DOMAIN call.steps = {"str"}
                      => "type" \in DOMAIN ret /\ ret.type = "IncorrectUsage"

\* instance[-1] on a trajectory of more than one step reads the final step
C18_Witness ==
    /\ call.op = "__getitem__"
    /\ call.steps = [int |-> -1]
    /\ Len(self._raw_data) > 1
    /\ StepsRead(ret) = {Len(self._raw_data) - 1}

----------------------------------------------------------------------------
(* from_file (data/_util.py): the context manager that yields an instance
   read from a file.  files[h] is the raw.File object with handle h; locals
   is the frame of the suspended generator while the body of the with
   statement runs, and self is the instance it yielded. *)

MaxFiles == 3    \* File objects created in one run

\* raw.File(filename): a new File object is open; opened_by records who
\* created it, outdated whether its Vasp version is below the minimal one
File(filename, outdated, opened_by) ==
    [filename |-> filename, outdated |-> outdated, opened_by |-> opened_by,
     state |-> "open"]

\* File.close(), also what File.__exit__ does
close(file) == [file EXCEPT !.state = "closed"]

OutdatedVaspVersion ==
    [type |-> "OutdatedVaspVersion",
     message |-> "To use py4vasp features, you need at least Vasp version"]

\* the file is closed only when the body returns
exit_closes_after_return(frame, fs, raised) ==
    IF frame.context = "File" /\ ~raised
    THEN [fs EXCEPT ![frame.file] = close(@)]
    ELSE fs

\* leaving "with context as file": File.__exit__ or nullcontext.__exit__,
\* whether or not an exception is on its way out
exit(frame, fs, raised) ==
    IF frame.context = "File"
    THEN [fs EXCEPT ![frame.file] = close(@)]
    ELSE fs

\* from_file(cls, file, attr) up to its yield: the files, the suspended
\* frame and the yielded instance, or the exception of cls(...) once the
\* with statement is left
from_file(fs, file, outdated) ==
    LET owned == file = None \/ DOMAIN file = {"str"}
        opened == IF owned
                  THEN Append(fs, File(IF file = None THEN "vaspout.h5" ELSE file.str,
                                       outdated, "from_file"))
                  ELSE fs
        frame == [context |-> IF owned THEN "File" ELSE "nullcontext",
                  file |-> IF owned THEN Len(opened) ELSE file.handle]
    IN  IF opened[frame.file].outdated
        THEN [files |-> exit(frame, opened, TRUE), frame |-> <<>>,
              yielded |-> None, raised |-> OutdatedVaspVersion]
        ELSE [files |-> opened, frame |-> frame,
              yielded |-> [cls |-> "Band", _raw |-> frame.file], raised |-> None]

InitFile ==
    /\ lattice_vectors = Lattice(Square, 0, 0, 0, 0, 6)
    /\ positions_z = <<0, 2>>
    /\ topology = "Sr2TiO4"
    /\ grid = <<NX, NY, NZ>>
    /\ bands = <<0>>
    /\ kpoints = <<0>>
    /\ partial_charge = Volume(Decaying[1], Decaying[2], 1, 1, 1)
    /\ self = None
    /\ call = [op |-> "init"]
    /\ ret = None
    /\ warned = <<>>
    /\ locals = <<>>
    /\ invocations = <<>>
    /\ files = <<>>
    /\ Viewer3d_arrows = <<>>
    /\ viewers = <<>>

\* the caller opens a file itself
OpenFile ==
    /\ Len(files) < MaxFiles
    /\ \E outdated \in BOOLEAN :
          files' = Append(files, File("other.h5", outdated, "user"))
    /\ call' = [op |-> "File"]
    /\ UNCHANGED <<raw, self, ret, warned, locals, invocations, Viewer3d_arrows, viewers>>

\* the caller closes a file it opened
CloseFile ==
    \E h \in DOMAIN files :
        /\ files[h].opened_by = "user"
        /\ files[h].state = "open"
        /\ files' = [files EXCEPT ![h] = close(@)]
        /\ call' = [op |-> "close", file |-> h]
        /\ UNCHANGED <<raw, self, ret, warned, locals, invocations, Viewer3d_arrows, viewers>>

\* with Band.from_file(file) as band: the with statement is entered
FromFileEnter ==
    /\ locals = <<>>
    /\ \E file \in {None, [str |-> "vaspout.h5"], [str |-> "other.h5"]}
                 \cup {[handle |-> h] : h \in {i \in DOMAIN files : files[i].state = "open"}},
          outdated \in BOOLEAN :
          /\ "handle" \notin DOMAIN file => Len(files) < MaxFiles
          /\ \E entered \in {from_file(files, file, outdated)} :
                /\ files' = entered.files
                /\ locals' = entered.frame
                /\ self' = IF entered.raised = None THEN entered.yielded ELSE self
                /\ ret' = entered.raised
          /\ call' = [op |-> "from_file", file |-> file]
    /\ UNCHANGED <<raw, warned, invocations, Viewer3d_arrows, viewers>>

\* the body of the with statement returns or raises
FromFileExit ==
    /\ locals # <<>>
    /\ \E raised \in BOOLEAN :
          /\ files' = exit(locals, files, raised)
          /\ call' = [op |-> "__exit__", context |-> locals.context,
                      file |-> locals.file, raised |-> raised]
          /\ ret' = IF raised THEN ValueError("raised in the body") ELSE None
    /\ locals' = <<>>
    /\ UNCHANGED <<raw, self, warned, invocations, Viewer3d_arrows, viewers>>

NextFile == OpenFile \/ CloseFile \/ FromFileEnter \/ FromFileExit

SpecFile == InitFile /\ [][NextFile]_vars

\* C19: a file that from_file opened itself is open exactly while the body
\* of its with statement runs: it is open during the body and closed once
\* the context is left, whether the body returned or raised or the
\* instance could not be built, so the yielded instance never has an open
\* file after the exit.  No step of from_file changes a File object that
\* the caller opened, so a passed File that was open stays open.
C19_FileLifetime ==
    /\ [](\A h \in DOMAIN files :
             files[h].opened_by = "from_file" =>
                 (files[h].state = "open" <=> locals # <<>> /\ locals.file = h))
    /\ [][call'.op \in {"from_file", "__exit__"} =>
             \A h \in DOMAIN files : files[h].opened_by = "user" => files'[h] = files[h]]_vars

\* the body raised in a context that opened the file itself: the file of
\* the yielded instance is closed
C19_Witness ==
    /\ call.op = "__exit__"
    /\ call.raised
    /\ call.context = "File"
    /\ files[self._raw].opened_by = "from_file"
    /\ files[self._raw].state = "closed"

----------------------------------------------------------------------------
(* Viewer3d (data/viewer3d.py): axes and arrows shown in an nglview widget.
   viewers[v] holds the attributes assigned on instance v: _positions is
   <<>> for None and <<n>> for the positions of n atoms, _axes is <<>> for
   None, and the field _arrows exists once the instance has a list of its
   own; until then self._arrows is the list of the class.  _ngl is the
   widget: the components it shows and how many it has made.  A component
   is named by its widget, its serial number there and its arrow. *)

MaxViewers == 2       \* Viewer3d instances
MaxComponents == 4    \* components made by all the widgets

RefinementException ==
    [type |-> "RefinementException", message |-> "Positions of atoms are not known."]

\* _x_axis, _y_axis, _z_axis
Axes == <<[axis |-> "x"], [axis |-> "y"], [axis |-> "z"]>>

\* self._make_arrow(arrow) for each of the arrows in turn: the instance
\* with the new components in its widget, and the components made
_make_arrow(v, viewer, arrows) ==
    LET made == [k \in DOMAIN arrows |->
                    [widget |-> v, serial |-> viewer._ngl.made + k, arrow |-> arrows[k]]]
    IN  [viewer |-> [viewer EXCEPT !._ngl.components = @ \cup {made[k] : k \in DOMAIN made},
                                   !._ngl.made = @ + Len(arrows)],
         made |-> made]

\* axes that are made again on every call
show_axes_again(v, viewer) ==
    LET shown == _make_arrow(v, viewer, Axes)
    IN  [shown.viewer EXCEPT !._axes = shown.made]

show_axes(v, viewer) ==
    IF viewer._axes # <<>> THEN viewer
    ELSE LET shown == _make_arrow(v, viewer, Axes)
         IN  [shown.viewer EXCEPT !._axes = shown.made]

hide_axes(viewer) ==
    IF viewer._axes = <<>> THEN viewer
    ELSE [viewer EXCEPT !._ngl.components = @ \ {viewer._axes[k] : k \in DOMAIN viewer._axes},
                        !._axes = <<>>]

\* the components made so far by all the widgets
Made ==
    LET sum[k \in 0 .. Len(viewers)] ==
            IF k = 0 THEN 0 ELSE sum[k - 1] + viewers[k]._ngl.made
    IN  sum[Len(viewers)]

\* Viewer3d(widget), or Viewer3d.from_structure(structure, supercell) for a
\* structure of one atom
NewViewer ==
    /\ Len(viewers) < MaxViewers
    /\ \E made \in {[_positions |-> <<>>, _multiple_cells |-> 1],
                    [_positions |-> <<1>>, _multiple_cells |-> 1],
                    [_positions |-> <<2>>, _multiple_cells |-> 2]} :
          viewers' = Append(viewers, [_ngl |-> [components |-> {}, made |-> 0],
                                      _positions |-> made._positions,
                                      _multiple_cells |-> made._multiple_cells,
                                      _axes |-> <<>>])
    /\ call' = [op |-> "Viewer3d", viewer |-> Len(viewers) + 1]
    /\ ret' = None
    /\ UNCHANGED <<raw, self, warned, locals, invocations, files, Viewer3d_arrows>>

ShowAxes ==
    \E v \in DOMAIN viewers :
        /\ viewers[v]._axes = <<>> => Made + 3 <= MaxComponents
        /\ viewers' = [viewers EXCEPT ![v] = show_axes(v, @)]
        /\ call' = [op |-> "show_axes", viewer |-> v]
        /\ ret' = None
        /\ UNCHANGED <<raw, self, warned, locals, invocations, files, Viewer3d_arrows>>

HideAxes ==
    \E v \in DOMAIN viewers :
        /\ viewers' = [viewers EXCEPT ![v] = hide_axes(@)]
        /\ call' = [op |-> "hide_axes", viewer |-> v]
        /\ ret' = None
        /\ UNCHANGED <<raw, self, warned, locals, invocations, files, Viewer3d_arrows>>

\* show_arrows_at_atoms(arrows) with one arrow for the atom of the unit cell
ShowArrows ==
    \E v \in DOMAIN viewers :
        /\ call' = [op |-> "show_arrows_at_atoms", viewer |-> v]
        /\ IF viewers[v]._positions = <<>>
           THEN /\ ret' = RefinementException
                /\ UNCHANGED <<viewers, Viewer3d_arrows>>
           ELSE \E n \in {Min({viewers[v]._positions[1], viewers[v]._multiple_cells})} :
                \E shown \in {_make_arrow(v, viewers[v], [k \in 1 .. n |-> [atom |-> k]])} :
                    /\ Made + n <= MaxComponents
                    /\ ret' = None
                    /\ IF "_arrows" \in DOMAIN viewers[v]
                       THEN /\ viewers' = [viewers EXCEPT ![v] =
                                              [shown.viewer EXCEPT !._arrows = @ \o shown.made]]
                            /\ UNCHANGED Viewer3d_arrows
                       ELSE /\ viewers' = [viewers EXCEPT ![v] = shown.viewer]
                            /\ Viewer3d_arrows' = Viewer3d_arrows \o shown.made
        /\ UNCHANGED <<raw, self, warned, locals, invocations, files>>

\* hide_arrows_at_atoms: remove_component for every arrow of self._arrows,
\* then self._arrows = [].  What the widget does with a component it does
\* not show is its own affair: it ignores the call, or raises and ends the
\* loop.
HideArrows ==
    \E v \in DOMAIN viewers, tolerant \in BOOLEAN :
    \E arrows \in {IF "_arrows" \in DOMAIN viewers[v] THEN viewers[v]._arrows
                   ELSE Viewer3d_arrows} :
    \E unknown \in {{k \in DOMAIN arrows : arrows[k] \notin viewers[v]._ngl.components}} :
    \E last \in {IF tolerant \/ unknown = {} THEN Len(arrows) ELSE Min(unknown)} :
        /\ ~tolerant => unknown # {}
        /\ call' = [op |-> "hide_arrows_at_atoms", viewer |-> v]
        /\ ret' = [removed |-> SubSeq(arrows, 1, last),
                   raised |-> IF tolerant \/ unknown = {} THEN None
                              ELSE ValueError("not a component of the widget")]
        /\ viewers' = [viewers EXCEPT ![v] =
               LET left == [@ EXCEPT !._ngl.components = @ \ {arrows[k] : k \in 1 .. last}]
               IN  IF tolerant \/ unknown = {}
                   THEN [a \in DOMAIN left \cup {"_arrows"} |->
                            IF a = "_arrows" THEN <<>> ELSE left[a]]
                   ELSE left]
        /\ UNCHANGED <<raw, self, warned, locals, invocations, files, Viewer3d_arrows>>

NextViewer == NewViewer \/ ShowAxes \/ HideAxes \/ ShowArrows \/ HideArrows

\* no file, no viewer and no arrow exists at the start
SpecViewer == InitFile /\ [][NextViewer]_vars

AtomArrows(viewer) == {c \in viewer._ngl.components : "atom" \in DOMAIN c.arrow}
AxisArrows(viewer) == {c \in viewer._ngl.components : "axis" \in DOMAIN c.arrow}

\* C22: hide_arrows_at_atoms on a viewer asks its widget to remove exactly
\* the arrows that the widget shows at the atoms, each once and none made by
\* the widget of another instance, and it ends with no arrow left at the
\* atoms and none tracked; show_arrows_at_atoms on a viewer without
\* positions raises RefinementException and adds nothing.
C22_OwnArrowsOnly ==
    /\ [](call.op = "hide_arrows_at_atoms" =>
             /\ \A k \in DOMAIN ret.removed : ret.removed[k].widget = call.viewer
             /\ ret.raised = None
             /\ AtomArrows(viewers[call.viewer]) = {}
             /\ "_arrows" \in DOMAIN viewers[call.viewer]
             /\ viewers[call.viewer]._arrows = <<>>)
    /\ [][call'.op = "hide_arrows_at_atoms" =>
             /\ {ret'.removed[k] : k \in DOMAIN ret'.removed} = AtomArrows(viewers[call'.viewer])
             /\ Len(ret'.removed) = Cardinality(AtomArrows(viewers[call'.viewer]))]_vars
    /\ [][call'.op = "show_arrows_at_atoms" /\ viewers[call'.viewer]._positions = <<>> =>
             /\ ret' = RefinementException
             /\ viewers' = viewers
             /\ Viewer3d_arrows' = Viewer3d_arrows]_vars

\* C23: the widget of a viewer shows no axis arrow or exactly the three of
\* x, y and z, and it shows three exactly while _axes is set; show_axes on
\* shown axes adds nothing and otherwise makes the three; hide_axes leaves no
\* axis arrow and every other component in place; no other call changes
\* the axis arrows of a viewer.
C23_AxesShown ==
    /\ [](\A v \in DOMAIN viewers :
             /\ Cardinality(AxisArrows(viewers[v])) \in {0, 3}
             /\ {c.arrow : c \in AxisArrows(viewers[v])} \in {{}, {Axes[1], Axes[2], Axes[3]}}
             /\ AxisArrows(viewers[v]) # {} <=> viewers[v]._axes # <<>>)
    /\ [][call'.op = "show_axes" =>
             IF AxisArrows(viewers[call'.viewer]) # {}
             THEN viewers' = viewers
             ELSE /\ Cardinality(AxisArrows(viewers'[call'.viewer])) = 3
                  /\ AtomArrows(viewers'[call'.viewer]) = AtomArrows(viewers[call'.viewer])]_vars
    /\ [][call'.op = "hide_axes" =>
             /\ AxisArrows(viewers'[call'.viewer]) = {}
             /\ AtomArrows(viewers'[call'.viewer]) = AtomArrows(viewers[call'.viewer])
             /\ AxisArrows(viewers[call'.viewer]) = {} => viewers' = viewers]_vars
    /\ [][call'.op \notin {"show_axes", "hide_axes"} =>
             \A v \in DOMAIN viewers :
                 AxisArrows(viewers'[v]) = AxisArrows(viewers[v])]_vars

\* the axes hidden again on a widget that made them and still shows an
\* arrow at an atom
C23_Witness ==
    /\ call.op = "hide_axes"
    /\ viewers[call.viewer]._ngl.made = 4
    /\ AxisArrows(viewers[call.viewer]) = {}
    /\ Cardinality(AtomArrows(viewers[call.viewer])) = 1

====
